---- MODULE Spec2Model ----
(***************************************************************************)
(* State-machine model of the NEV ground-control station (nev_gcs):        *)
(*   state.py          SharedState: sub-structs, indexed lists, alerts     *)
(*   vehicle_bridge.py VehicleProtocol (zenoh link) and run_send_loop      *)
(*   joystick.py       JoystickHandler (polling thread)                    *)
(*   web/server.py     set_cmd_mode / set_estop                            *)
(*                                                                         *)
(* Units.  Floats that carry a physical value are integers in 1/1000000    *)
(* of the unit (0.05 -> 50000).  Clock readings (time.monotonic()) and     *)
(* intervals are integer milliseconds (3.0 s -> 3000), rates are in mHz.   *)
(*                                                                         *)
(* Execution contexts.  "loop" is the asyncio event loop that owns the     *)
(* SharedState, "joystick" the JoystickHandler thread, "zenoh" the         *)
(* transport's callback thread.  A thread step is one access to shared     *)
(* memory; an event-loop callback is split only where it reads or writes   *)
(* a field that a thread also writes.                                      *)
(***************************************************************************)
EXTENDS Integers, Sequences, FiniteSets, TLC

VARIABLES
    state,      \* the SharedState instance (state.py:83-101)
    now,        \* time.monotonic(), in ms
    lastSnap,   \* <<data>> of the latest _broadcast_sync call (state.py:169), <<>> before
    writers,    \* execution contexts that have assigned a SharedState field
    seq,        \* VehicleProtocol._seq
    lastPut,    \* <<[key, data, ok]>> of the latest publisher put(), <<>> before
    lpc,        \* where the event loop stands: "idle" between callbacks
    lreg,       \* locals of the callback the event loop is inside
    webResp,    \* <<response>> of the latest set_cmd_mode / set_estop, <<>> before
    cfg,        \* the configuration dict handed to run_send_loop
    disp,       \* run_send_loop's last_hb, last_tc, last_push
    loopQ,      \* callbacks handed to call_soon_threadsafe and not yet run, oldest first
    nPosted,    \* how many callbacks have been handed to call_soon_threadsafe
    lastRun,    \* the posting number of the callback the loop ran last, 0 before
    joy,        \* the JoystickHandler's own fields, and the locals of _run
    jpc,        \* where the joystick thread stands in _run
    pad,        \* the input device as pygame reports it
    sent,       \* per outbound key, <<[seq, ok]>> of its latest put, <<>> before
    link,       \* the Zenoh handles of the VehicleProtocol, and what stop() did to them
    ws          \* per streaming consumer, where its ws_endpoint stands

linkVars == <<seq, lastPut, sent, link>>
loopVars == <<lpc, lreg>>
postVars == <<loopQ, nPosted, lastRun>>
joyVars == <<joy, jpc, pad>>
vars == <<state, now, lastSnap, writers, seq, lastPut, lpc, lreg, webResp, cfg, disp,
          loopQ, nPosted, lastRun, joy, jpc, pad, sent, link, ws>>

\* ------------------------------------------------------------------ bounds
TimeStep == 100        \* the clock is observed every TimeStep ms
StartTime == 1000      \* the clock when the process starts
ShortSpan == 100       \* ms of run time where staleness plays no part
LongSpan == 3300       \* ms of run time of the staleness specification
MaxIdx == 5            \* largest index of an indexed update
MaxSeq == 3            \* puts the link makes before the model stops sending
MaxBroadcasts == 21    \* broadcasts a run of the streaming consumers may see
MaxStops == 2          \* calls of VehicleProtocol.stop() in one run
MaxPosted == 3         \* callbacks posted to the event loop in one run

\* ------------------------------------------------------- dataclass defaults
MuxStatus == [requested_mode |-> -1, active_source |-> -1, remote_enabled |-> FALSE,
              nav_active |-> FALSE, teleop_active |-> FALSE, final_active |-> FALSE]

TwistValues == [nav_lx |-> 0, nav_az |-> 0, teleop_lx |-> 0, teleop_az |-> 0,
                final_lx |-> 0, final_az |-> 0]

NetworkStatus == [connected |-> FALSE, status_code |-> 2, rtt_ms |-> 0, bandwidth_mbps |-> 0]

HunterStatus == [linear_vel |-> 0, steering_angle |-> 0, vehicle_state |-> 0,
                 control_mode |-> 0, error_code |-> 0, battery_voltage |-> 0]

EStopStatus == [is_estop |-> FALSE, bridge_flag |-> 0, mux_flag |-> 0]

SystemResources == [cpu_phys |-> 0, cpu_logic |-> 0, cpu_usage |-> 0, cpu_temp |-> 0,
                    cpu_load |-> 0, ram_total |-> 0, ram_used |-> 0, net_total_ifaces |-> 0,
                    net_active_ifaces |-> 0, net_down_ifaces |-> 0]

ControlState == [mode |-> -1, estop |-> FALSE, linear_x |-> 0, angular_z |-> 0,
                 raw_speed |-> 0, raw_steer |-> 0, joystick_connected |-> FALSE]

SharedState == [mux |-> MuxStatus, twist |-> TwistValues, network |-> NetworkStatus,
                hunter |-> HunterStatus, estop |-> EStopStatus, resources |-> SystemResources,
                remote_enabled |-> FALSE, control |-> ControlState, alerts |-> <<>>,
                last_vehicle_recv |-> 0,
                gpu_list |-> <<>>, disk_partitions |-> <<>>, net_interfaces |-> <<>>,
                subscribers |-> <<>>]

\* the attributes of SharedState that hold a dataclass instance
SubStructKeys == {"mux", "twist", "network", "hunter", "estop", "resources"}

\* {} : the empty dict
EmptyDict == [k \in {} |-> 0]

\* ------------------------------------------------------------- validation
MovingThreshold == 50000    \* 0.05
StaleThreshold == 3000      \* 3.0 s

Abs(x) == IF x < 0 THEN -x ELSE x

MovingAlert == [level |-> "error", message |-> "E-STOP active but vehicle is moving!"]
WaitingAlert == [level |-> "warn", message |-> "E-stop sent - waiting for vehicle confirmation"]
NoTeleopAlert == [level |-> "warn", message |-> "Remote mode active but no teleop commands received"]
StaleAlert(age) == [level |-> "error", message |-> "No vehicle data for", age |-> age]

\* mutant: the threshold itself counts as moving
MovingRuleAtThreshold(st) ==
    IF st.estop.is_estop /\ (Abs(st.twist.final_lx) >= MovingThreshold
                             \/ Abs(st.twist.final_az) >= MovingThreshold)
    THEN <<MovingAlert>> ELSE <<>>

\* mutant: the vehicle's confirmation is not looked at
WaitingRuleUnconfirmed(st) ==
    IF st.control.estop THEN <<WaitingAlert>> ELSE <<>>

\* the four rules of _validate, in the order they append
MovingRule(st) ==
    IF st.estop.is_estop /\ (Abs(st.twist.final_lx) > MovingThreshold
                             \/ Abs(st.twist.final_az) > MovingThreshold)
    THEN <<MovingAlert>> ELSE <<>>

WaitingRule(st) ==
    IF st.control.estop /\ ~st.estop.is_estop THEN <<WaitingAlert>> ELSE <<>>

NoTeleopRule(st) ==
    IF st.mux.requested_mode = 2 /\ st.mux.remote_enabled /\ ~st.mux.teleop_active
    THEN <<NoTeleopAlert>> ELSE <<>>

\* mutant: the threshold itself counts as stale
StaleRuleAtThreshold(st, t) ==
    IF st.last_vehicle_recv > 0 /\ t - st.last_vehicle_recv >= StaleThreshold
    THEN <<StaleAlert(t - st.last_vehicle_recv)>> ELSE <<>>

StaleRule(st, t) ==
    IF st.last_vehicle_recv > 0 /\ t - st.last_vehicle_recv > StaleThreshold
    THEN <<StaleAlert(t - st.last_vehicle_recv)>> ELSE <<>>

Rules(st, t) == MovingRule(st) \o WaitingRule(st) \o NoTeleopRule(st) \o StaleRule(st, t)

\* mutant: the pass appends to the list it finds
validate_append(st, t) == [st EXCEPT !.alerts = @ \o Rules(st, t)]

validate(st, t) == [st EXCEPT !.alerts = Rules(st, t)]

\* ---------------------------------------------------------------- snapshot
\* to_json: every attribute but the subscriber list, plus the derived vehicle_age
\* (server_time is the wall clock, which nothing in the model reads)
to_json(st, t) ==
    [mux |-> st.mux, twist |-> st.twist, network |-> st.network, hunter |-> st.hunter,
     estop |-> st.estop, resources |-> st.resources, gpu_list |-> st.gpu_list,
     disk_partitions |-> st.disk_partitions, net_interfaces |-> st.net_interfaces,
     remote_enabled |-> st.remote_enabled, control |-> st.control, alerts |-> st.alerts,
     vehicle_age |-> IF st.last_vehicle_recv > 0 THEN t - st.last_vehicle_recv ELSE -1]

\* asyncio.Queue(maxsize=20).put_nowait: QueueFull when at capacity
QueueMaxsize == 20

\* mutant: the queue takes the item whatever it holds
put_nowait_unbounded(q, data) == [q EXCEPT !.items = Append(@, data)]

put_nowait(q, data) ==
    IF Len(q.items) >= q.maxsize THEN q ELSE [q EXCEPT !.items = Append(@, data)]

\* _broadcast_sync: one serialization, pushed to every subscriber, QueueFull swallowed
broadcast_sync(st, t) ==
    [st EXCEPT !.subscribers =
        [i \in DOMAIN st.subscribers |-> put_nowait(st.subscribers[i], to_json(st, t))]]

\* ------------------------------------------------------- Store operations
\* mutant: setattr without the hasattr test
MergeFieldsNoHasattr(obj, data) ==
    [k \in DOMAIN obj \cup DOMAIN data |-> IF k \in DOMAIN data THEN data[k] ELSE obj[k]]

\* the setattr loop of update_packet
MergeFields(obj, data) ==
    [k \in DOMAIN obj |-> IF k \in DOMAIN data THEN data[k] ELSE obj[k]]

Stamp(st, t) == [st EXCEPT !.last_vehicle_recv = t]

update_packet(st, key, data, t) ==
    IF key \notin SubStructKeys
    THEN st
    ELSE broadcast_sync(validate(Stamp([st EXCEPT ![key] = MergeFields(@, data)], t), t), t)

\* dict.update
DictUpdate(d, data) ==
    [k \in DOMAIN d \cup DOMAIN data |-> IF k \in DOMAIN data THEN data[k] ELSE d[k]]

\* mutant: the slot is assigned, not updated
upsert_list_assign(lst, idx, data) ==
    LET grown == IF idx + 1 > Len(lst)
                 THEN lst \o [i \in 1..(idx + 1 - Len(lst)) |-> EmptyDict]
                 ELSE lst
    IN  [grown EXCEPT ![idx + 1] = data]

upsert_list(lst, idx, data) ==
    LET grown == IF idx + 1 > Len(lst)
                 THEN lst \o [i \in 1..(idx + 1 - Len(lst)) |-> EmptyDict]
                 ELSE lst
    IN  [grown EXCEPT ![idx + 1] = DictUpdate(@, data)]

update_gpu(st, idx, data, t) ==
    broadcast_sync(Stamp([st EXCEPT !.gpu_list = upsert_list(@, idx, data)], t), t)

update_disk_partition(st, idx, data, t) ==
    broadcast_sync(Stamp([st EXCEPT !.disk_partitions = upsert_list(@, idx, data)], t), t)

update_net_interface(st, idx, data, t) ==
    broadcast_sync(Stamp([st EXCEPT !.net_interfaces = upsert_list(@, idx, data)], t), t)

\* mutant: the relay flag counts as vehicle traffic and stamps the clock
update_remote_enabled_stamped(st, val, t) ==
    broadcast_sync(Stamp([st EXCEPT !.remote_enabled = val], t), t)

update_remote_enabled(st, val, t) ==
    broadcast_sync([st EXCEPT !.remote_enabled = val], t)

\* ------------------------------------------------ VehicleProtocol, outbound
\* the keys start() declares a publisher for
OutboundKeys == {"nev/gcs/heartbeat", "nev/gcs/teleop", "nev/gcs/estop", "nev/gcs/cmd_mode"}

\* the handles after start(): every subscriber and publisher declared, the
\* session open.  stops: the calls of stop() so far; reused: the handles a
\* stop() undeclared or closed after their release; raised: a stop() has raised
VehicleProtocol == [subs |-> "declared", pubs |-> "declared", session |-> "open",
                    stops |-> 0, reused |-> {}, raised |-> FALSE]

\* the order in which stop() goes through the handles
StopOrder == <<"subs", "pubs", "session">>

\* stop(): undeclare() on every subscriber and every publisher, close() on the
\* session; _subs, _pubs and _session keep the handles, so a later stop() calls
\* them again.  Zenoh may answer a call on a released handle with an exception,
\* which ends stop() there: upto is the last handle that stop() got to.
stop ==
    /\ link.stops < MaxStops
    /\ IF link.subs = "declared"
       THEN link' = [link EXCEPT !.subs = "undeclared", !.pubs = "undeclared",
                                 !.session = "closed", !.stops = @ + 1]
       ELSE \E upto \in 1..3 : \E raises \in BOOLEAN :
               /\ upto < 3 => raises
               /\ link' = [link EXCEPT !.stops = @ + 1,
                                       !.reused = @ \cup {StopOrder[i] : i \in 1..upto},
                                       !.raised = @ \/ raises]
    /\ UNCHANGED <<state, now, lastSnap, writers, seq, lastPut, sent, lpc, lreg, webResp, cfg, ws,
                   disp, postVars, joyVars>>

SeqModulus == 65536

next_seq(s) == (s + 1) % SeqModulus

\* _zput(key, data): the put either goes out or raises and is logged
zput(key, data, ok) == [key |-> key, data |-> data, ok |-> ok]

\* one send_* call: _next_seq() then _zput(); any exception of put() is swallowed
Send(key, fields) ==
    /\ \E ok \in IF link.pubs = "declared" THEN BOOLEAN ELSE {FALSE} :
          lastPut' = <<zput(key, [f \in DOMAIN fields \cup {"seq"} |->
                                  IF f = "seq" THEN seq ELSE fields[f]], ok)>>
    /\ seq' = next_seq(seq)
    /\ sent' = [sent EXCEPT ![key] = <<[seq |-> seq, ok |-> lastPut'[1].ok]>>]

\* Python's round(x, 3): to the nearest 1/1000, a tie to the even neighbour
round3(x) ==
    LET a == Abs(x)
        lo == (a \div 1000) * 1000
        r == a % 1000
        up == \/ r > 500
              \/ r = 500 /\ (a \div 1000) % 2 = 1
        m == IF up THEN lo + 1000 ELSE lo
    IN  IF x < 0 THEN -m ELSE m

send_heartbeat == Send("nev/gcs/heartbeat", EmptyDict)
send_teleop(linear_x, angular_z) ==
    Send("nev/gcs/teleop", [linear_x |-> round3(linear_x), angular_z |-> round3(angular_z)])
send_estop(activate) == Send("nev/gcs/estop", [active |-> activate])
send_cmd_mode(mode) == Send("nev/gcs/cmd_mode", [mode |-> mode])

\* a handler that sends starts only while the model still lets the link send
CanSend == seq < MaxSeq

\* ------------------------------------------------------------------ clock
Advance(limit) ==
    /\ now + TimeStep <= limit
    /\ now' = now + TimeStep
    /\ UNCHANGED <<state, lastSnap, writers, seq, lastPut, sent, lpc, lreg, webResp, cfg, link, ws, disp, postVars, joyVars>>

\* the loop and the vehicle stay silent for span
Wait(span, limit) ==
    /\ now + span <= limit
    /\ now' = now + span
    /\ UNCHANGED <<state, lastSnap, writers, seq, lastPut, sent, lpc, lreg, webResp, cfg, link, ws, disp, postVars, joyVars>>

\* ------------------------------------------- event loop: Store operations
\* an assignment to the SharedState made by the event loop; bcast: the handler
\* ends in _broadcast_sync, whose `data` is then the snapshot of the new state
LoopStore(st, bcast) ==
    /\ state' = st
    /\ lastSnap' = IF bcast THEN <<to_json(st, now)>> ELSE lastSnap
    /\ writers' = writers \cup {"loop"}

ApplyUpdate(key, data) ==
    /\ lpc = "idle"
    /\ IF key \in SubStructKeys
       THEN LoopStore(update_packet(state, key, data, now), TRUE)
       ELSE UNCHANGED <<state, lastSnap, writers>>
    /\ UNCHANGED <<now, seq, lastPut, sent, lpc, lreg, webResp, cfg, link, ws, disp, postVars, joyVars>>

ApplyIndexedUpdate(coll, idx, data) ==
    /\ lpc = "idle"
    /\ LoopStore(CASE coll = "gpu_list" -> update_gpu(state, idx, data, now)
                   [] coll = "disk_partitions" -> update_disk_partition(state, idx, data, now)
                   [] coll = "net_interfaces" -> update_net_interface(state, idx, data, now),
                 TRUE)
    /\ UNCHANGED <<now, seq, lastPut, sent, lpc, lreg, webResp, cfg, link, ws, disp, postVars, joyVars>>

SetRemoteEnabled(val) ==
    /\ lpc = "idle"
    /\ LoopStore(update_remote_enabled(state, val, now), TRUE)
    /\ UNCHANGED <<now, seq, lastPut, sent, lpc, lreg, webResp, cfg, link, ws, disp, postVars, joyVars>>

\* ------------------------------------------------------ web/server.py REST
ValidModes == {-1, 0, 1, 2}

\* mutant: the range check is gone
set_cmd_mode_unchecked(mode) ==
    /\ lpc = "idle"
    /\ CanSend
    /\ LoopStore([state EXCEPT !.control.mode = mode], FALSE)
    /\ send_cmd_mode(mode)
    /\ webResp' = <<[ok |-> TRUE, mode |-> mode]>>
    /\ UNCHANGED <<now, lpc, lreg, cfg, link, ws, disp, postVars, joyVars>>

set_cmd_mode(mode) ==
    /\ lpc = "idle"
    /\ IF mode \notin ValidModes
       THEN /\ webResp' = <<[ok |-> FALSE, error |-> "invalid mode", mode |-> mode]>>
            /\ UNCHANGED <<state, lastSnap, writers, seq, lastPut, sent>>
       ELSE /\ CanSend
            /\ LoopStore([state EXCEPT !.control.mode = mode], FALSE)
            /\ send_cmd_mode(mode)
            /\ webResp' = <<[ok |-> TRUE, mode |-> mode]>>
    /\ UNCHANGED <<now, lpc, lreg, cfg, link, ws, disp, postVars, joyVars>>

\* set_estop, up to the assignment of control.estop
set_estop(active) ==
    /\ lpc = "idle"
    /\ CanSend
    /\ LoopStore([state EXCEPT !.control.estop = active], FALSE)
    /\ lpc' = "set_estop_send"
    /\ lreg' = [active |-> active]
    /\ UNCHANGED <<now, seq, lastPut, sent, webResp, cfg, link, ws, disp, postVars, joyVars>>

\* set_estop, from proto.send_estop to the response
set_estop_send ==
    /\ lpc = "set_estop_send"
    /\ send_estop(lreg.active)
    /\ webResp' = <<[ok |-> TRUE, active |-> lreg.active]>>
    /\ lpc' = "idle"
    /\ lreg' = EmptyDict
    /\ UNCHANGED <<state, now, lastSnap, writers, cfg, link, ws, disp, postVars, joyVars>>

\* ------------------------------------------------------------ run_send_loop
cfg_get(c, key, default) == IF key \in DOMAIN c THEN c[key] ELSE default

hb_interval == 1000000 \div cfg_get(cfg, "heartbeat_rate", 5000)
tc_interval == 1000000 \div cfg_get(cfg, "teleop_rate", 20000)
push_interval == cfg_get(cfg, "state_push_interval", 500)

\* mutant: a heartbeat whose put fails ends the loop
DispatchTickFatal ==
    /\ lpc = "idle"
    /\ LET hb_due == now - disp.last_hb >= hb_interval
           tc_due == now - disp.last_tc >= tc_interval
           gate == state.control.mode = 2 /\ ~state.control.estop
       IN  /\ (hb_due \/ (tc_due /\ gate)) => CanSend
           /\ IF hb_due THEN send_heartbeat ELSE UNCHANGED <<seq, lastPut, sent>>
           /\ disp' = [disp EXCEPT !.last_hb = IF hb_due THEN now ELSE @,
                                   !.last_tc = IF tc_due /\ ~gate THEN now ELSE @]
           /\ lpc' = IF hb_due /\ ~lastPut'[1].ok THEN "dead"
                     ELSE IF tc_due /\ gate THEN "teleop_lx" ELSE "push"
           /\ lreg' = [now |-> now]
    /\ UNCHANGED <<state, now, lastSnap, writers, webResp, cfg, link, ws, postVars, joyVars>>

\* mutant: the gate looks at the mode alone
DispatchTickModeOnly ==
    /\ lpc = "idle"
    /\ LET hb_due == now - disp.last_hb >= hb_interval
           tc_due == now - disp.last_tc >= tc_interval
           gate == state.control.mode = 2
       IN  /\ (hb_due \/ (tc_due /\ gate)) => CanSend
           /\ IF hb_due THEN send_heartbeat ELSE UNCHANGED <<seq, lastPut, sent>>
           /\ disp' = [disp EXCEPT !.last_hb = IF hb_due THEN now ELSE @,
                                   !.last_tc = IF tc_due /\ ~gate THEN now ELSE @]
           /\ lpc' = IF tc_due /\ gate THEN "teleop_lx" ELSE "push"
           /\ lreg' = [now |-> now]
    /\ UNCHANGED <<state, now, lastSnap, writers, webResp, cfg, link, ws, postVars, joyVars>>

\* one pass of the while body, up to the teleop gate: now is read once, the
\* heartbeat goes out when due, and a due teleop timer evaluates the gate on the
\* Store's current mode and e-stop flag
DispatchTick ==
    /\ lpc = "idle"
    /\ LET hb_due == now - disp.last_hb >= hb_interval
           tc_due == now - disp.last_tc >= tc_interval
           gate == state.control.mode = 2 /\ ~state.control.estop
       IN  /\ (hb_due \/ (tc_due /\ gate)) => CanSend
           /\ IF hb_due THEN send_heartbeat ELSE UNCHANGED <<seq, lastPut, sent>>
           /\ disp' = [disp EXCEPT !.last_hb = IF hb_due THEN now ELSE @,
                                   !.last_tc = IF tc_due /\ ~gate THEN now ELSE @]
           /\ lpc' = IF tc_due /\ gate THEN "teleop_lx" ELSE "push"
           /\ lreg' = [now |-> now]
    /\ UNCHANGED <<state, now, lastSnap, writers, webResp, cfg, link, ws, postVars, joyVars>>

\* proto.send_teleop(ctrl.linear_x, ctrl.angular_z): the first argument is read
DispatchTeleopRead ==
    /\ lpc = "teleop_lx"
    /\ lreg' = [now |-> lreg.now, linear_x |-> state.control.linear_x]
    /\ lpc' = "teleop_az"
    /\ UNCHANGED <<state, now, lastSnap, writers, seq, lastPut, sent, webResp, cfg, link, ws, disp, postVars, joyVars>>

\* the second argument is read and the teleop message goes out
DispatchTeleopSend ==
    /\ lpc = "teleop_az"
    /\ send_teleop(lreg.linear_x, state.control.angular_z)
    /\ disp' = [disp EXCEPT !.last_tc = lreg.now]
    /\ lreg' = [now |-> lreg.now]
    /\ lpc' = "push"
    /\ UNCHANGED <<state, now, lastSnap, writers, webResp, cfg, link, ws, postVars, joyVars>>

\* mutant: the refresh broadcasts without running the validation pass
DispatchPushBroadcastOnly ==
    /\ lpc = "push"
    /\ IF lreg.now - disp.last_push >= push_interval
       THEN /\ LoopStore(broadcast_sync(state, now), TRUE)
            /\ disp' = [disp EXCEPT !.last_push = lreg.now]
       ELSE UNCHANGED <<state, lastSnap, writers, disp>>
    /\ lpc' = "idle"
    /\ lreg' = EmptyDict
    /\ UNCHANGED <<now, seq, lastPut, sent, webResp, cfg, link, ws, postVars, joyVars>>

\* the state refresh: _validate() and _broadcast_sync() when the push timer is due
DispatchPush ==
    /\ lpc = "push"
    /\ IF lreg.now - disp.last_push >= push_interval
       THEN /\ LoopStore(broadcast_sync(validate(state, now), now), TRUE)
            /\ disp' = [disp EXCEPT !.last_push = lreg.now]
       ELSE UNCHANGED <<state, lastSnap, writers, disp>>
    /\ lpc' = "idle"
    /\ lreg' = EmptyDict
    /\ UNCHANGED <<now, seq, lastPut, sent, webResp, cfg, link, ws, postVars, joyVars>>

Dispatcher == DispatchTick \/ DispatchTeleopRead \/ DispatchTeleopSend \/ DispatchPush

\* ------------------------------------------------- VehicleProtocol, inbound
\* loop.call_soon_threadsafe(fn): the callback joins the loop's queue
call_soon_threadsafe(cb) ==
    /\ nPosted < MaxPosted
    /\ nPosted' = nPosted + 1
    /\ loopQ' = Append(loopQ, [n |-> nPosted + 1, cb |-> cb])
    /\ UNCHANGED lastRun

\* topic -> the sub-struct its handler hands to update_packet
PacketTopics == [twist |-> "twist", network |-> "network", hunter |-> "hunter",
                 estop |-> "estop", cpu |-> "resources", mem |-> "resources"]

\* the keys each posted _update closure subscripts
GpuKeys == {"gpu_usage", "gpu_mem_used", "gpu_mem_total", "gpu_temp", "gpu_power"}
DiskKeys == {"mountpoint", "total_bytes", "used_bytes", "percent", "accessible"}
IfaceKeys == {"name", "is_up", "speed_mbps", "in_bps", "out_bps"}
NetKeys == {"net_total_ifaces", "net_active_ifaces", "net_down_ifaces"}

Pick(d, keys) == [k \in keys |-> d[k]]

dict_get(d, key, default) == IF key \in DOMAIN d THEN d[key] ELSE default

\* the result of a callback so far: the Store, and whether it has broadcast
Res(st, bcast) == [st |-> st, bcast |-> bcast]

\* `for e in entries: update_<coll>(e['idx'], {k: e[k] ...})`; a missing key raises
\* KeyError, which ends the callback with the earlier entries applied
RECURSIVE ForEntries(_, _, _, _, _)
ForEntries(res, entries, coll, keys, t) ==
    IF entries = <<>> THEN res
    ELSE LET e == Head(entries) IN
         IF ~((keys \cup {"idx"}) \subseteq DOMAIN e) THEN res
         ELSE ForEntries(
                Res(CASE coll = "gpu_list" -> update_gpu(res.st, e.idx, Pick(e, keys), t)
                      [] coll = "disk_partitions" ->
                            update_disk_partition(res.st, e.idx, Pick(e, keys), t)
                      [] coll = "net_interfaces" ->
                            update_net_interface(res.st, e.idx, Pick(e, keys), t),
                    TRUE),
                Tail(entries), coll, keys, t)

\* the body of a posted callback, run on the event loop at time t
RunCallback(cb, st, t) ==
    CASE cb.fn = "update_packet" ->
            Res(update_packet(st, cb.key, cb.data, t), TRUE)
      [] cb.fn = "mux" ->
            Res(update_remote_enabled(update_packet(st, "mux", cb.data, t),
                                      dict_get(cb.data, "remote_enabled", FALSE), t), TRUE)
      [] cb.fn = "gpu" ->
            ForEntries(Res(st, FALSE), cb.data, "gpu_list", GpuKeys, t)
      [] cb.fn = "disk" ->
            ForEntries(Res(Stamp(st, t), FALSE), dict_get(cb.data, "partitions", <<>>),
                       "disk_partitions", DiskKeys, t)
      [] cb.fn = "net" ->
            IF ~(NetKeys \subseteq DOMAIN cb.data) THEN Res(st, FALSE)
            ELSE ForEntries(Res(update_packet(st, "resources", Pick(cb.data, NetKeys), t), TRUE),
                            dict_get(cb.data, "interfaces", <<>>),
                            "net_interfaces", IfaceKeys, t)
      [] cb.fn = "broadcast" ->
            Res(broadcast_sync(st, t), TRUE)

\* the callable a subscriber callback posts for its topic
Callback(topic, data) ==
    IF topic \in DOMAIN PacketTopics
    THEN [fn |-> "update_packet", key |-> PacketTopics[topic], data |-> data]
    ELSE [fn |-> topic, data |-> data]

\* mutant: the handler applies the update itself, on the transport's thread
on_sample_direct(topic, sample) ==
    /\ link.subs = "declared"
    /\ sample.decodes
    /\ nPosted < MaxPosted
    /\ nPosted' = nPosted + 1
    /\ state' = RunCallback(Callback(topic, sample.data), state, now).st
    /\ writers' = writers \cup {"zenoh"}
    /\ UNCHANGED <<now, lastSnap, seq, lastPut, sent, lpc, lreg, webResp, cfg, link, ws, disp, loopQ, lastRun,
                   joyVars>>

\* a subscriber callback, on the transport's thread.  sample.decodes: whether
\* json.loads accepts the payload; when it raises, nothing is posted.
on_sample(topic, sample) ==
    /\ link.subs = "declared"
    /\ IF sample.decodes
       THEN call_soon_threadsafe(Callback(topic, sample.data))
       ELSE UNCHANGED postVars
    /\ UNCHANGED <<state, now, lastSnap, writers, seq, lastPut, sent, lpc, lreg, webResp, cfg, link, ws, disp, joyVars>>

\* the event loop runs the oldest posted callback
LoopRun ==
    /\ lpc = "idle"
    /\ loopQ # <<>>
    /\ LET res == RunCallback(Head(loopQ).cb, state, now)
       IN  /\ state' = res.st
           /\ lastSnap' = IF res.bcast THEN <<to_json(res.st, now)>> ELSE lastSnap
           /\ writers' = IF res.st # state THEN writers \cup {"loop"} ELSE writers
    /\ lastRun' = Head(loopQ).n
    /\ loopQ' = Tail(loopQ)
    /\ UNCHANGED <<now, seq, lastPut, sent, lpc, lreg, webResp, cfg, link, ws, disp, nPosted, joyVars>>

\* --------------------------------------------------------- JoystickHandler
\* cfg.get defaults of __init__; axis readings, deadzone and max_* are in 1/1000
DefaultJoyCfg == EmptyDict
max_steer_deg_default == 27
radians_milli(deg) == (deg * 3141593) \div 180000      \* math.radians, in 1/1000 rad

JoystickHandler(c) ==
    [axis_speed |-> cfg_get(c, "axis_speed", 1),
     axis_steer |-> cfg_get(c, "axis_steer", 3),
     axis_raw_speed |-> cfg_get(c, "axis_raw_speed", 4),
     axis_raw_steer |-> cfg_get(c, "axis_raw_steer", 0),
     btn_estop |-> cfg_get(c, "btn_estop", 4),
     max_speed |-> cfg_get(c, "max_speed", 1000),
     max_steer |-> radians_milli(cfg_get(c, "max_steer_deg", max_steer_deg_default)),
     deadzone |-> cfg_get(c, "deadzone", 50),
     invert_speed |-> cfg_get(c, "invert_speed", TRUE),
     joystick |-> FALSE,          \* _joystick is not None
     numaxes |-> 0,               \* what the held Joystick object reports
     numbuttons |-> 0,
     running |-> TRUE,            \* start() has run
     prev_btn_estop |-> FALSE,
     use_estop_btn |-> FALSE,
     has_raw_speed |-> FALSE,
     has_raw_steer |-> FALSE,
     last_broadcast |-> 0,
     btn |-> FALSE,               \* locals of _run / _toggle_estop
     new_val |-> FALSE,
     errors |-> <<>>]             \* what the latest _validate_config gave logger.error

\* mutant: the remainder above the threshold is not rescaled
apply_deadzone_unscaled(value, deadzone) ==
    IF Abs(value) < deadzone THEN 0
    ELSE LET sign == IF value > 0 THEN 1 ELSE -1
         IN  sign * ((Abs(value) - deadzone) * 1000)

\* _apply_deadzone, value and deadzone in 1/1000, result in 1/1000000
apply_deadzone(value, deadzone) ==
    IF Abs(value) < deadzone THEN 0
    ELSE LET sign == IF value > 0 THEN 1 ELSE -1
         IN  sign * (((Abs(value) - deadzone) * 1000000) \div (1000 - deadzone))

\* a product of a 1/1000000 value and a 1/1000 factor, in 1/1000000
Scale(x, factor) == (IF x < 0 THEN -1 ELSE 1) * ((Abs(x) * factor) \div 1000)

\* _validate_config, for a device with the given axis and button counts
validate_config(j, num_axes, num_buttons) ==
    [j EXCEPT !.axis_speed = IF @ >= num_axes THEN 0 ELSE @,
              !.axis_steer = IF @ >= num_axes THEN 0 ELSE @,
              !.has_raw_speed = j.axis_raw_speed < num_axes,
              !.has_raw_steer = j.axis_raw_steer < num_axes,
              !.use_estop_btn = ~(j.btn_estop >= num_buttons),
              !.errors = (IF j.axis_speed >= num_axes THEN <<"axis_speed">> ELSE <<>>)
                         \o (IF j.axis_steer >= num_axes THEN <<"axis_steer">> ELSE <<>>)]

\* Joystick.get_axis / get_button raise pygame.error outside the device's range
AxisReadable(j, axis) == 0 <= axis /\ axis < j.numaxes
ButtonReadable(j, button) == 0 <= button /\ button < j.numbuttons

\* an assignment to the SharedState made by the joystick thread
JoyStore(st) ==
    /\ state' = st
    /\ writers' = writers \cup {"joystick"}

\* readings a stick can give, in 1/1000
AxisVals == {30, 600}

\* the top of the while loop, up to the first access to the SharedState:
\* leaves when _running is cleared; with no device held, _try_connect; with a
\* device, pump / get_count and the speed axis
JoyTop ==
    /\ jpc = "top"
    /\ IF ~joy.running
       THEN /\ jpc' = "done"
            /\ UNCHANGED <<state, writers, joy>>
       ELSE IF ~joy.joystick
       THEN IF pad.count = 0
            THEN /\ JoyStore([state EXCEPT !.control.joystick_connected = FALSE])
                 /\ UNCHANGED <<joy, jpc>>
            ELSE /\ joy' = validate_config([joy EXCEPT !.joystick = TRUE,
                                                       !.numaxes = pad.numaxes,
                                                       !.numbuttons = pad.numbuttons],
                                           pad.numaxes, pad.numbuttons)
                 /\ JoyStore([state EXCEPT !.control.joystick_connected = TRUE])
                 /\ UNCHANGED jpc
       ELSE \E pump_ok \in BOOLEAN :
            IF ~pump_ok \/ pad.count = 0
            THEN /\ joy' = [joy EXCEPT !.joystick = FALSE]
                 /\ jpc' = "disconnect"
                 /\ UNCHANGED <<state, writers>>
            ELSE IF ~AxisReadable(joy, joy.axis_speed)
            THEN /\ jpc' = "dead"
                 /\ UNCHANGED <<state, writers, joy>>
            ELSE \E v \in pad.readings :
                 LET speed_raw == apply_deadzone(v, joy.deadzone)
                     signed == IF joy.invert_speed THEN -speed_raw ELSE speed_raw
                 IN  /\ JoyStore([state EXCEPT !.control.linear_x = Scale(signed, joy.max_speed)])
                     /\ jpc' = "steer"
                     /\ UNCHANGED joy
    /\ UNCHANGED <<now, lastSnap, seq, lastPut, sent, lpc, lreg, webResp, cfg, link, ws, disp, postVars, pad>>

\* _on_disconnect: after _joystick = None, one assignment per step
JoyDisconnect ==
    /\ \/ /\ jpc = "disconnect"
          /\ JoyStore([state EXCEPT !.control.joystick_connected = FALSE])
          /\ jpc' = "disconnect_lx"
       \/ /\ jpc = "disconnect_lx"
          /\ JoyStore([state EXCEPT !.control.linear_x = 0])
          /\ jpc' = "disconnect_az"
       \/ /\ jpc = "disconnect_az"
          /\ JoyStore([state EXCEPT !.control.angular_z = 0])
          /\ jpc' = "disconnect_speed"
       \/ /\ jpc = "disconnect_speed"
          /\ JoyStore([state EXCEPT !.control.raw_speed = 0])
          /\ jpc' = "disconnect_steer"
       \/ /\ jpc = "disconnect_steer"
          /\ JoyStore([state EXCEPT !.control.raw_steer = 0])
          /\ jpc' = "top"
    /\ UNCHANGED <<now, lastSnap, seq, lastPut, sent, lpc, lreg, webResp, cfg, link, ws, disp, postVars, joy, pad>>

\* the steering axis and the two display axes, one assignment per step
JoyAxes ==
    /\ \/ /\ jpc = "steer"
          /\ IF ~AxisReadable(joy, joy.axis_steer)
             THEN jpc' = "dead" /\ UNCHANGED <<state, writers>>
             ELSE \E v \in pad.readings :
                  /\ JoyStore([state EXCEPT !.control.angular_z =
                                  Scale(-apply_deadzone(v, joy.deadzone), joy.max_steer)])
                  /\ jpc' = "raw_speed"
       \/ /\ jpc = "raw_speed"
          /\ IF joy.has_raw_speed /\ ~AxisReadable(joy, joy.axis_raw_speed)
             THEN jpc' = "dead" /\ UNCHANGED <<state, writers>>
             ELSE \E v \in pad.readings :
                  /\ JoyStore([state EXCEPT !.control.raw_speed =
                                  IF joy.has_raw_speed THEN v * 1000 ELSE 0])
                  /\ jpc' = "raw_steer"
       \/ /\ jpc = "raw_steer"
          /\ IF joy.has_raw_steer /\ ~AxisReadable(joy, joy.axis_raw_steer)
             THEN jpc' = "dead" /\ UNCHANGED <<state, writers>>
             ELSE \E v \in pad.readings :
                  /\ JoyStore([state EXCEPT !.control.raw_steer =
                                  IF joy.has_raw_steer THEN v * 1000 ELSE 0])
                  /\ jpc' = "button"
    /\ UNCHANGED <<now, lastSnap, seq, lastPut, sent, lpc, lreg, webResp, cfg, link, ws, disp, postVars, joy, pad>>

\* mutant: the toggle follows the button's level, not its rising edge
JoyButtonLevel ==
    /\ jpc = "button"
    /\ joy.use_estop_btn /\ ButtonReadable(joy, joy.btn_estop)
    /\ \E btn \in {b \in BOOLEAN : b => CanSend} :
         IF btn
         THEN /\ joy' = [joy EXCEPT !.btn = btn, !.new_val = ~state.control.estop]
              /\ jpc' = "toggle_write"
         ELSE /\ joy' = [joy EXCEPT !.btn = btn, !.prev_btn_estop = btn]
              /\ jpc' = "broadcast"
    /\ UNCHANGED <<state, now, lastSnap, writers, seq, lastPut, sent, lpc, lreg, webResp, cfg, link, ws, disp,
                   postVars, pad>>

\* the e-stop button: read, and on a rising edge _toggle_estop up to its read of
\* control.estop (set_proto has run, so _proto is not None); the operator presses
\* the button only while the model still lets the link send
JoyButton ==
    /\ jpc = "button"
    /\ IF ~joy.use_estop_btn
       THEN jpc' = "broadcast" /\ UNCHANGED joy
       ELSE IF ~ButtonReadable(joy, joy.btn_estop)
       THEN jpc' = "dead" /\ UNCHANGED joy
       ELSE \E btn \in {b \in BOOLEAN : (b /\ ~joy.prev_btn_estop) => CanSend} :
            IF btn /\ ~joy.prev_btn_estop
            THEN /\ joy' = [joy EXCEPT !.btn = btn, !.new_val = ~state.control.estop]
                 /\ jpc' = "toggle_write"
            ELSE /\ joy' = [joy EXCEPT !.btn = btn, !.prev_btn_estop = btn]
                 /\ jpc' = "broadcast"
    /\ UNCHANGED <<state, now, lastSnap, writers, seq, lastPut, sent, lpc, lreg, webResp, cfg, link, ws, disp,
                   postVars, pad>>

\* _toggle_estop: self.state.control.estop = new_val
JoyToggleWrite ==
    /\ jpc = "toggle_write"
    /\ JoyStore([state EXCEPT !.control.estop = joy.new_val])
    /\ jpc' = "toggle_send"
    /\ UNCHANGED <<now, lastSnap, seq, lastPut, sent, lpc, lreg, webResp, cfg, link, ws, disp, postVars, joy, pad>>

\* _toggle_estop: self._proto.send_estop(new_val), then _prev_btn_estop = btn
JoyToggleSend ==
    /\ jpc = "toggle_send"
    /\ send_estop(joy.new_val)
    /\ joy' = [joy EXCEPT !.prev_btn_estop = joy.btn]
    /\ jpc' = "broadcast"
    /\ UNCHANGED <<state, now, lastSnap, writers, lpc, lreg, webResp, cfg, link, ws, disp, postVars, pad>>

\* the throttled UI broadcast (set_loop has run), then sleep(0.02)
JoyBroadcast ==
    /\ jpc = "broadcast"
    /\ IF now - joy.last_broadcast >= 50
       THEN /\ call_soon_threadsafe([fn |-> "broadcast"])
            /\ joy' = [joy EXCEPT !.last_broadcast = now]
       ELSE UNCHANGED <<postVars, joy>>
    /\ jpc' = "top"
    /\ UNCHANGED <<state, now, lastSnap, writers, seq, lastPut, sent, lpc, lreg, webResp, cfg, link, ws, disp, pad>>

JoystickThread ==
    JoyTop \/ JoyDisconnect \/ JoyAxes \/ JoyButton \/ JoyToggleWrite \/ JoyToggleSend
    \/ JoyBroadcast

\* stop(), called by the owner of the event loop: _running is cleared; the join
\* that follows (timeout 2.0) only waits, it ends nothing the thread has begun
JoyStop ==
    /\ joy.running
    /\ joy' = [joy EXCEPT !.running = FALSE]
    /\ UNCHANGED <<state, now, lastSnap, writers, seq, lastPut, sent, lpc, lreg, webResp, cfg, link, ws, disp,
                   postVars, jpc, pad>>

\* the operator plugs the device in or pulls it out
Plug ==
    /\ pad.count = 0
    /\ pad' = [pad EXCEPT !.count = 1]
    /\ UNCHANGED <<state, now, lastSnap, writers, seq, lastPut, sent, lpc, lreg, webResp, cfg, link, ws, disp,
                   postVars, joy, jpc>>

Unplug ==
    /\ pad.count = 1
    /\ pad' = [pad EXCEPT !.count = 0]
    /\ UNCHANGED <<state, now, lastSnap, writers, seq, lastPut, sent, lpc, lreg, webResp, cfg, link, ws, disp,
                   postVars, joy, jpc>>

\* ------------------------------------------------------- web/server.py /ws
Consumers == {1, 2}

KeepaliveWindow == 5000     \* wait_for(queue.get(), timeout=5.0)

\* no ws_endpoint is running for the consumer.  data: <<the text the handler is
\* about to send>>; since: when the current wait_for began; gone: the client has
\* closed its end, so the next send_text raises
WsIdle == [pc |-> "none", data |-> <<>>, since |-> 0, gone |-> FALSE]

\* asyncio.Queue(maxsize=20), tagged with the consumer it was made for
Queue(id) == [id |-> id, maxsize |-> QueueMaxsize, items |-> <<>>]

add_subscriber(st, q) == [st EXCEPT !.subscribers = Append(@, q)]

\* list.remove(q); the ValueError of an absent q is swallowed
remove_subscriber(st, id) ==
    [st EXCEPT !.subscribers = SelectSeq(@, LAMBDA q : q.id # id)]

\* the consumer's queue as the Store's subscriber list holds it
SinkOf(st, id) == CHOOSE i \in DOMAIN st.subscribers : st.subscribers[i].id = id

Registered(st, id) == \E i \in DOMAIN st.subscribers : st.subscribers[i].id = id

\* accept(), Queue(), add_subscriber(), and state.to_json() as the argument of
\* the first send_text
WsConnect(c) ==
    /\ lpc = "idle"
    /\ ws[c].pc = "none"
    /\ LoopStore(add_subscriber(state, Queue(c)), FALSE)
    /\ ws' = [ws EXCEPT ![c] = [pc |-> "first", data |-> <<to_json(state, now)>>,
                                 since |-> 0, gone |-> FALSE]]
    /\ UNCHANGED <<now, seq, lastPut, sent, link, lpc, lreg, webResp, cfg, disp, postVars, joyVars>>

\* await ws.send_text(data) returns, or raises because the client is gone: then
\* the finally clause runs remove_subscriber
WsSend(c) ==
    /\ lpc = "idle"
    /\ ws[c].pc \in {"first", "send"}
    /\ IF ws[c].gone
       THEN /\ LoopStore(remove_subscriber(state, c), FALSE)
            /\ ws' = [ws EXCEPT ![c] = WsIdle]
       ELSE /\ ws' = [ws EXCEPT ![c] = [@ EXCEPT !.pc = "wait", !.data = <<>>, !.since = now]]
            /\ UNCHANGED <<state, lastSnap, writers>>
    /\ UNCHANGED <<now, seq, lastPut, sent, link, lpc, lreg, webResp, cfg, disp, postVars, joyVars>>

\* mutant: the newest queued snapshot is taken
WsGetNewest(c) ==
    /\ lpc = "idle"
    /\ ws[c].pc = "wait"
    /\ LET i == SinkOf(state, c)
           items == state.subscribers[i].items
       IN  /\ items # <<>>
           /\ LoopStore([state EXCEPT !.subscribers[i].items = SubSeq(items, 1, Len(items) - 1)],
                         FALSE)
           /\ ws' = [ws EXCEPT ![c] = [@ EXCEPT !.pc = "send", !.data = <<items[Len(items)]>>]]
    /\ UNCHANGED <<now, seq, lastPut, sent, link, lpc, lreg, webResp, cfg, disp, postVars, joyVars>>

\* wait_for(queue.get(), 5.0) returns the oldest queued snapshot
WsGet(c) ==
    /\ lpc = "idle"
    /\ ws[c].pc = "wait"
    /\ LET i == SinkOf(state, c)
           items == state.subscribers[i].items
       IN  /\ items # <<>>
           /\ LoopStore([state EXCEPT !.subscribers[i].items = Tail(items)], FALSE)
           /\ ws' = [ws EXCEPT ![c] = [@ EXCEPT !.pc = "send", !.data = <<Head(items)>>]]
    /\ UNCHANGED <<now, seq, lastPut, sent, link, lpc, lreg, webResp, cfg, disp, postVars, joyVars>>

\* wait_for times out on the empty queue: the keepalive text is state.to_json()
WsTimeout(c) ==
    /\ lpc = "idle"
    /\ ws[c].pc = "wait"
    /\ state.subscribers[SinkOf(state, c)].items = <<>>
    /\ now - ws[c].since >= KeepaliveWindow
    /\ ws' = [ws EXCEPT ![c] = [@ EXCEPT !.pc = "send", !.data = <<to_json(state, now)>>]]
    /\ UNCHANGED <<state, now, lastSnap, writers, seq, lastPut, sent, link, lpc, lreg, webResp,
                   cfg, disp, postVars, joyVars>>

\* the client closes its end; the handler, which never receives, does not see it
WsDisconnect(c) ==
    /\ ws[c].pc # "none"
    /\ ~ws[c].gone
    /\ ws' = [ws EXCEPT ![c] = [@ EXCEPT !.gone = TRUE]]
    /\ UNCHANGED <<state, now, lastSnap, writers, seq, lastPut, sent, link, lpc, lreg, webResp,
                   cfg, disp, postVars, joyVars>>

ws_endpoint(c) == WsConnect(c) \/ WsSend(c) \/ WsGet(c) \/ WsTimeout(c)

\* ------------------------------------------------------------------- Init
DefaultCfg == EmptyDict

\* the devices an operator may own: a gamepad, and a button box with no axes
Gamepad == [count |-> 0, numaxes |-> 6, numbuttons |-> 8, readings |-> AxisVals]
ButtonBox == [count |-> 0, numaxes |-> 0, numbuttons |-> 8, readings |-> AxisVals]

\* c: the dict handed to run_send_loop; jc: cfg.get('joystick', {})
InitJoy(c, jc, pads) ==
    /\ state = SharedState
    /\ now = StartTime
    /\ lastSnap = <<>>
    /\ writers = {}
    /\ seq = 0
    /\ lastPut = <<>>
    /\ lpc = "idle"
    /\ lreg = EmptyDict
    /\ webResp = <<>>
    /\ cfg = c
    /\ disp = [last_hb |-> 0, last_tc |-> 0, last_push |-> 0]
    /\ loopQ = <<>>
    /\ nPosted = 0
    /\ lastRun = 0
    /\ joy = JoystickHandler(jc)
    /\ jpc = "top"
    /\ pad \in pads
    /\ sent = [k \in OutboundKeys |-> <<>>]
    /\ link = VehicleProtocol
    /\ ws = [id \in Consumers |-> WsIdle]

InitAll(c, pads) == InitJoy(c, DefaultJoyCfg, pads)

InitWith(c) == InitAll(c, {Gamepad})

Init == InitWith(DefaultCfg)

\* ------------------------------------------- the Store under its operations
\* field maps as the vehicle publishes them; names the schema lacks included
PacketInputs(key) ==
    CASE key = "twist" -> {[final_lx |-> 200000], [final_az |-> -60000, jerk |-> 7]}
      [] key = "estop" -> {[is_estop |-> TRUE], [is_estop |-> FALSE, bridge_flag |-> 1]}
      [] OTHER -> {[connected |-> TRUE]}

\* "telemetry" names no attribute of SharedState
UpdateKeys == {"twist", "estop", "telemetry"}

NextStore ==
    \/ \E key \in UpdateKeys : \E data \in PacketInputs(key) : ApplyUpdate(key, data)
    \/ ApplyIndexedUpdate("gpu_list", 1, [gpu_usage |-> 10])
    \/ \E val \in BOOLEAN : SetRemoteEnabled(val)
    \/ \E active \in BOOLEAN : set_estop(active)
    \/ set_estop_send
    \/ DispatchTick
    \/ DispatchPush
    \/ Advance(StartTime + ShortSpan)

SpecStore == Init /\ [][NextStore]_vars

\* ------------------------------------------------ the indexed collections
IndexedInputs(coll) ==
    CASE coll = "gpu_list" -> {[gpu_usage |-> 10], [gpu_usage |-> 90, gpu_temp |-> 70]}
      [] coll = "disk_partitions" -> {[mountpoint |-> "/"]}
      [] coll = "net_interfaces" -> {[name |-> "eth0", is_up |-> TRUE]}

Collections == {"gpu_list", "disk_partitions", "net_interfaces"}

Indexes(coll) == IF coll = "gpu_list" THEN {0, 2, MaxIdx} ELSE {1, MaxIdx}

NextIndexed ==
    \/ \E coll \in Collections : \E idx \in Indexes(coll) : \E data \in IndexedInputs(coll) :
          ApplyIndexedUpdate(coll, idx, data)
    \/ Advance(StartTime + ShortSpan)

SpecIndexed == Init /\ [][NextIndexed]_vars

\* ------------------------------------------------------------- staleness
\* a configuration whose heartbeat and teleop timers stay quiet for LongSpan
QuietCfg == [heartbeat_rate |-> 200, teleop_rate |-> 200]

NextStale ==
    \/ ApplyUpdate("twist", [final_lx |-> 200000])
    \/ DispatchTick
    \/ DispatchPush
    \/ Advance(StartTime + LongSpan)

SpecStale == InitWith(QuietCfg) /\ [][NextStale]_vars

\* ----------------------------------------------------- the alert rules
\* field maps around the 0.05 threshold, and the mux flags of the teleop rule
AlertInputs(key) ==
    CASE key = "twist" -> {[final_lx |-> 200000], [final_lx |-> 40000], [final_lx |-> -50000],
                           [final_lx |-> 0, final_az |-> -50001], [final_az |-> 0]}
      [] key = "estop" -> {[is_estop |-> TRUE], [is_estop |-> FALSE]}
      [] key = "mux" -> {[requested_mode |-> 2, remote_enabled |-> TRUE, teleop_active |-> FALSE],
                         [teleop_active |-> TRUE]}

AlertKeys == {"twist", "estop", "mux"}

NextAlerts ==
    \/ \E key \in AlertKeys : \E data \in AlertInputs(key) : ApplyUpdate(key, data)
    \/ \E active \in BOOLEAN : set_estop(active)
    \/ set_estop_send
    \/ DispatchTick
    \/ DispatchPush
    \/ Wait(LongSpan, StartTime + LongSpan)

SpecAlerts == InitWith(QuietCfg) /\ [][NextAlerts]_vars

\* ------------------------------------------------- streaming consumers
\* the vehicle reports a gpu usage that rises by one per report, so that every
\* broadcast snapshot differs from the ones before it
GpuRamp ==
    LET usage == IF state.gpu_list = <<>> THEN 0 ELSE state.gpu_list[1].gpu_usage
    IN  /\ usage < MaxBroadcasts
        /\ ApplyIndexedUpdate("gpu_list", 0, [gpu_usage |-> usage + 1])

\* consumer 1 runs its handler freely; consumer 2 connects and then never takes
\* its first text (a client that stopped reading), so its queue fills up
NextSinks ==
    \/ ws_endpoint(1)
    \/ WsDisconnect(1)
    \/ WsConnect(2)
    \/ GpuRamp
    \/ Wait(KeepaliveWindow, StartTime + KeepaliveWindow)

SpecSinks == Init /\ [][NextSinks]_vars

\* ------------------------------------------------------- the vehicle link
Undecodable == [decodes |-> FALSE]
Decoded(data) == [decodes |-> TRUE, data |-> data]

GpuEntry(idx) == [idx |-> idx, gpu_usage |-> 10, gpu_mem_used |-> 1, gpu_mem_total |-> 8,
                  gpu_temp |-> 70, gpu_power |-> 30]
DiskEntry(idx) == [idx |-> idx, mountpoint |-> "/", total_bytes |-> 100, used_bytes |-> 40,
                   percent |-> 40, accessible |-> TRUE]
IfaceEntry(idx) == [idx |-> idx, name |-> "eth0", is_up |-> TRUE, speed_mbps |-> 1000,
                    in_bps |-> 5, out_bps |-> 6]

\* samples as the vehicle publishes them, per topic
Samples(topic) ==
    CASE topic = "twist" -> {Decoded([final_lx |-> 200000]), Undecodable}
      [] topic = "estop" -> {Decoded([is_estop |-> TRUE])}
      [] topic = "mux" -> {Decoded([requested_mode |-> 2, remote_enabled |-> TRUE])}
      [] topic = "gpu" -> {Decoded(<<GpuEntry(0), GpuEntry(1)>>)}
      [] topic = "disk" -> {Decoded([partitions |-> <<DiskEntry(0)>>])}
      [] topic = "net" -> {Decoded([net_total_ifaces |-> 2, net_active_ifaces |-> 1,
                                    net_down_ifaces |-> 1, interfaces |-> <<IfaceEntry(0)>>])}

Topics == {"twist", "estop", "mux", "gpu", "disk", "net"}

NextLink ==
    \/ \E topic \in Topics : \E sample \in Samples(topic) : on_sample(topic, sample)
    \/ LoopRun
    \/ Advance(StartTime + ShortSpan)

SpecLink == Init /\ [][NextLink]_vars

\* the link while it is shut down
NextShutdown ==
    \/ NextLink
    \/ stop

SpecShutdown == Init /\ [][NextShutdown]_vars

\* ------------------------------------------------------ the input driver
\* the joystick thread against the operator, the device and the web e-stop
NextJoy ==
    \/ JoystickThread
    \/ Plug
    \/ Unplug
    \/ \E active \in BOOLEAN : set_estop(active)
    \/ set_estop_send
    \/ Advance(StartTime + ShortSpan)

SpecJoy == InitAll(DefaultCfg, {Gamepad, ButtonBox}) /\ [][NextJoy]_vars

\* ------------------------------------------------- reconnecting a device
\* axis_speed configured as 7, and a device that reports four axes
ClampCfg == [axis_speed |-> 7]
FourAxisPad == [count |-> 0, numaxes |-> 4, numbuttons |-> 8, readings |-> AxisVals]

NextReconnect ==
    \/ JoystickThread
    \/ Plug
    \/ Unplug

SpecReconnect == InitJoy(DefaultCfg, ClampCfg, {FourAxisPad}) /\ [][NextReconnect]_vars

\* ------------------------------------------------------- the deadzone
\* configured thresholds in 1/1000, and a two-axis stick without buttons, read
\* near rest and at both ends
DeadzoneInputs == {0, 50, 500, 999}
TwoAxisStick == [count |-> 0, numaxes |-> 2, numbuttons |-> 0, readings |-> {-1000, 40, 1000}]

InitDeadzone == \E d \in DeadzoneInputs : InitJoy(DefaultCfg, [deadzone |-> d], {TwoAxisStick})

\* the polling thread on that stick: with no button there is no e-stop toggle
NextDeadzone ==
    \/ JoyTop
    \/ JoyDisconnect
    \/ JoyAxes
    \/ JoyButton
    \/ JoyBroadcast
    \/ Plug
    \/ Unplug

SpecDeadzone == InitDeadzone /\ [][NextDeadzone]_vars

\* ------------------------------------------------- commands and dispatcher
ModeInputs == {-2, -1, 0, 1, 2, 3}

NextCmd ==
    \/ Dispatcher
    \/ \E mode \in ModeInputs : set_cmd_mode(mode)
    \/ \E active \in BOOLEAN : set_estop(active)
    \/ set_estop_send
    \/ Advance(StartTime + ShortSpan)

SpecCmd == Init /\ [][NextCmd]_vars

\* ------------------------------------------------ malformed vehicle messages
\* payloads that json.loads rejects, and payloads that decode but lack a key the
\* handler of their topic subscripts: in a later entry, in the only entry, or at
\* the top level
MalformedSamples(topic) ==
    CASE topic = "twist" -> {Undecodable}
      [] topic = "gpu" -> {Decoded(<<GpuEntry(0), [idx |-> 1, gpu_usage |-> 10]>>)}
      [] topic = "disk" -> {Decoded([partitions |-> <<[idx |-> 0, mountpoint |-> "/"]>>])}
      [] topic = "net" -> {Decoded([net_total_ifaces |-> 2, net_active_ifaces |-> 1,
                                    net_down_ifaces |-> 1,
                                    interfaces |-> <<[idx |-> 0, name |-> "eth0"]>>]),
                           Decoded([interfaces |-> <<IfaceEntry(0)>>])}

MalformedTopics == {"twist", "gpu", "disk", "net"}

NextMalformed ==
    \/ \E topic \in MalformedTopics : \E sample \in MalformedSamples(topic) :
          on_sample(topic, sample)
    \/ LoopRun
    \/ Advance(StartTime + ShortSpan)

SpecMalformed == Init /\ [][NextMalformed]_vars

\* --------------------------------------------- the refresh after a silence
\* the vehicle reports early on and then falls silent; nobody commands anything
\* and, with QuietCfg, no heartbeat or teleop falls due.  The clock is read every
\* RefreshStep; the silence lasts until a vehicle heard at StartTime + RefreshStep
\* has been stale for most of a push interval.
RefreshStep == 200

EarlyUpdate ==
    /\ now <= StartTime + RefreshStep
    /\ ApplyUpdate("twist", [final_lx |-> 200000])

SilenceEnd == StartTime + LongSpan + cfg_get(QuietCfg, "state_push_interval", 500)

NextRefresh ==
    \/ EarlyUpdate
    \/ DispatchTick
    \/ DispatchPush
    \/ Wait(RefreshStep, SilenceEnd)

\* run_send_loop is a `while True` task of the running event loop that yields
\* only in asyncio.sleep(0.01): every pass it can make it eventually makes, and
\* the monotonic clock goes on
FairRefresh ==
    /\ InitWith(QuietCfg)
    /\ [][NextRefresh]_vars
    /\ WF_vars(DispatchTick)
    /\ WF_vars(DispatchPush)
    /\ WF_vars(Wait(RefreshStep, SilenceEnd))

\* ------------------------------------------- shutting the input driver down
\* the polling thread on a gamepad, the event loop running what the thread
\* posted, and stop() arriving at any point of an iteration
NextJoyStop ==
    \/ JoystickThread
    \/ Plug
    \/ JoyStop
    \/ LoopRun

SpecJoyStop == InitAll(DefaultCfg, {Gamepad}) /\ [][NextJoyStop]_vars

\* ------------------------------------------------ the driver's retry loop
\* the polling thread alone with the operator's devices.  _run is the body of a
\* started thread: while it has a next statement it eventually executes it.
NextRetry ==
    \/ JoystickThread
    \/ Plug
    \/ Unplug

FairRetry ==
    /\ InitAll(DefaultCfg, {Gamepad, ButtonBox})
    /\ [][NextRetry]_vars
    /\ WF_vars(JoystickThread)

\* ------------------------------------------------- the receive timestamp
\* the writers of the Store side by side: vehicle traffic (a twist update, and a
\* disk message, whose callback stamps the clock and then upserts a partition),
\* the relay flag, the web mode command, the refresh, and the joystick thread on
\* a plugged-in stick, as far as its connect and its first write of the speed
SteadyStick == [count |-> 1, numaxes |-> 2, numbuttons |-> 0, readings |-> {600}]
DiskSample == Decoded([partitions |-> <<DiskEntry(0)>>])

NextStamp ==
    \/ ApplyUpdate("twist", [final_lx |-> 200000])
    \/ on_sample("disk", DiskSample)
    \/ LoopRun
    \/ SetRemoteEnabled(TRUE)
    \/ set_cmd_mode(2)
    \/ DispatchTick
    \/ DispatchPush
    \/ JoyTop
    \/ Advance(StartTime + ShortSpan)

SpecStamp == InitJoy(QuietCfg, DefaultJoyCfg, {SteadyStick}) /\ [][NextStamp]_vars

\* ------------------------------------------ the e-stop button and the teleop
\* the dispatcher with its teleop timer at the default 20 Hz and no heartbeat
\* due, the operator choosing mode 2, and the polling thread on a plugged-in pad
\* whose e-stop button the operator may press
TeleopCfg == [heartbeat_rate |-> 200]
ButtonPad == [count |-> 1, numaxes |-> 2, numbuttons |-> 8, readings |-> {600}]

NextButton ==
    \/ Dispatcher
    \/ set_cmd_mode(2)
    \/ JoystickThread

SpecButton == InitJoy(TeleopCfg, DefaultJoyCfg, {ButtonPad}) /\ [][NextButton]_vars

\* =================================================================== claims
Max(a, b) == IF a >= b THEN a ELSE b

StaleAlerts(alerts) == {i \in DOMAIN alerts : alerts[i].message = "No vehicle data for"}

\* the step is update_packet on a sub-struct, with one of the modelled field maps
IsApplyUpdate(key, data) == key \in SubStructKeys /\ ApplyUpdate(key, data)

\* what C7 asks of the step: the stamp, the validation pass and the broadcast
StampedValidatedBroadcast ==
    /\ state'.last_vehicle_recv = now
    /\ state'.alerts = Rules(state', now)
    /\ lastSnap' = <<to_json(state', now)>>
    /\ lastSnap'[1].alerts = Rules(state', now)

\* C7: every update_packet and every update_gpu / update_disk_partition /
\* update_net_interface stamps last_vehicle_recv, validates and broadcasts, so the
\* snapshot it broadcasts carries the alert list of the post-update state.
C7_UpdatesValidateThenBroadcast ==
    [][(\/ \E key \in UpdateKeys : \E data \in PacketInputs(key) : IsApplyUpdate(key, data)
        \/ \E coll \in Collections : \E idx \in 0..MaxIdx : \E data \in IndexedInputs(coll) :
              ApplyIndexedUpdate(coll, idx, data))
       => StampedValidatedBroadcast]_vars

C9_IndexedUpsert ==
    [][/\ \A coll \in Collections : \A idx \in 0..MaxIdx : \A data \in IndexedInputs(coll) :
            ApplyIndexedUpdate(coll, idx, data) =>
               LET old == state[coll]
                   new == state'[coll]
                   n == Len(old)
                   prev == IF idx + 1 <= n THEN old[idx + 1] ELSE EmptyDict
               IN  /\ Len(new) = Max(n, idx + 1)
                   /\ \A j \in 1..Len(new) :
                         j # idx + 1 => new[j] = IF j <= n THEN old[j] ELSE EmptyDict
                   /\ DOMAIN new[idx + 1] = DOMAIN prev \cup DOMAIN data
                   /\ \A f \in DOMAIN data : new[idx + 1][f] = data[f]
                   /\ \A f \in DOMAIN prev \ DOMAIN data : new[idx + 1][f] = prev[f]
       /\ \A coll \in Collections : Len(state'[coll]) >= Len(state[coll])]_vars

\* C9 witness: index MaxIdx upserted twice into the empty list, placeholders
\* below it, the second field map merged into the first
C9_Witness ==
    /\ Len(state.gpu_list) = MaxIdx + 1
    /\ \A j \in 1..MaxIdx : state.gpu_list[j] = EmptyDict
    /\ state.gpu_list[MaxIdx + 1] = [gpu_usage |-> 10, gpu_temp |-> 70]

\* the step is a validation pass: update_packet, or a due state refresh
IsValidationPass ==
    \/ \E key \in UpdateKeys : \E data \in PacketInputs(key) : IsApplyUpdate(key, data)
    \/ IsApplyUpdate("twist", [final_lx |-> 200000])
    \/ DispatchPush /\ lreg.now - disp.last_push >= push_interval

\* C10: a validation pass at time t with last_vehicle_recv = T > 0 leaves no
\* staleness alert when t <= T + 3.0 s and exactly one, of level error, when
\* t > T + 3.0 s; with no vehicle data ever received it leaves none.
C10_Staleness ==
    [][IsValidationPass =>
         LET T == state'.last_vehicle_recv
             stale == StaleAlerts(state'.alerts)
         IN  /\ (T = 0 \/ now <= T + 3000) => stale = {}
             /\ (T > 0 /\ now > T + 3000) =>
                   /\ Cardinality(stale) = 1
                   /\ \A i \in stale : state'.alerts[i].level = "error"
                                        /\ state'.alerts[i].age = now - T]_vars

\* C10 witness: the pass at T + 3.1 s has run and left its one alert
C10_Witness ==
    /\ state.last_vehicle_recv > 0
    /\ state.alerts = <<StaleAlert(3100)>>
    /\ lastSnap = <<to_json(state, state.last_vehicle_recv + 3100)>>

\* the step is a validation pass of SpecAlerts: update_packet, or a due refresh
IsAlertPass ==
    \/ \E key \in AlertKeys : \E data \in AlertInputs(key) : ApplyUpdate(key, data)
    \/ DispatchPush /\ lreg.now - disp.last_push >= push_interval

\* the alerts of a list whose message is msg
WithMessage(alerts, msg) == {i \in DOMAIN alerts : alerts[i].message = msg}

\* C11: a validation pass run while control.estop is true and estop.is_estop is
\* false yields exactly one 'waiting for vehicle confirmation' alert, of level
\* warn; a pass run with estop.is_estop true (or control.estop false) yields none,
\* so the alert is gone after the first pass that follows the confirmation.
C11_ConfirmationLag ==
    [][IsAlertPass =>
         LET waiting == WithMessage(state'.alerts, "E-stop sent - waiting for vehicle confirmation")
         IN  /\ Cardinality(waiting) =
                    IF state'.control.estop /\ ~state'.estop.is_estop THEN 1 ELSE 0
             /\ \A i \in waiting : state'.alerts[i].level = "warn"]_vars

\* C11 witness: the operator's e-stop went out, the vehicle has reported
\* is_estop = False since, and the pass of that report lists the one alert
C11_Witness ==
    /\ state.control.estop /\ ~state.estop.is_estop
    /\ lastPut # <<>> /\ lastPut[1].key = "nev/gcs/estop" /\ lastPut[1].data.active
    /\ state.last_vehicle_recv = now
    /\ state.alerts = <<WaitingAlert>>
    /\ lastSnap # <<>> /\ lastSnap[1].alerts = state.alerts

\* C12: a validation pass yields exactly one 'vehicle is moving' alert, of level
\* error, when estop.is_estop is true and |final_lx| > 0.05 or |final_az| > 0.05
\* (one alert even when both are), and none when is_estop is false or both
\* magnitudes are at most 0.05.
C12_MovingWhileStopped ==
    [][IsAlertPass =>
         LET moving == WithMessage(state'.alerts, "E-STOP active but vehicle is moving!")
             lx == state'.twist.final_lx
             az == state'.twist.final_az
             over == lx > 50000 \/ lx < -50000 \/ az > 50000 \/ az < -50000
         IN  /\ Cardinality(moving) = IF state'.estop.is_estop /\ over THEN 1 ELSE 0
             /\ \A i \in moving : state'.alerts[i].level = "error"]_vars

\* C12 witness: with the vehicle's e-stop on, final_lx = 0.2 and
\* final_az = -0.050001 both exceed the threshold and one alert is listed
C12_Witness ==
    /\ state.estop.is_estop
    /\ state.twist.final_lx = 200000 /\ state.twist.final_az = -50001
    /\ state.alerts = <<MovingAlert>>

\* the list the four rules give on the fields of st at time t
ExpectedAlerts(st, t) ==
    LET lx == st.twist.final_lx
        az == st.twist.final_az
        age == t - st.last_vehicle_recv
        pick(cond, alert) == IF cond THEN <<alert>> ELSE <<>>
    IN  pick(st.estop.is_estop /\ (lx > 50000 \/ lx < -50000 \/ az > 50000 \/ az < -50000),
             [level |-> "error", message |-> "E-STOP active but vehicle is moving!"])
        \o pick(st.control.estop /\ ~st.estop.is_estop,
                [level |-> "warn", message |-> "E-stop sent - waiting for vehicle confirmation"])
        \o pick(st.mux.requested_mode = 2 /\ st.mux.remote_enabled /\ ~st.mux.teleop_active,
                [level |-> "warn", message |-> "Remote mode active but no teleop commands received"])
        \o pick(st.last_vehicle_recv > 0 /\ age > 3000,
                [level |-> "error", message |-> "No vehicle data for", age |-> age])

\* C13: after every validation pass the alert list is the list the rules give on
\* the fields and the clock of that moment, whatever it held before, with at most
\* one alert per rule; so two passes on the same fields and time give equal lists.
C13_AlertsRecomputed ==
    [][IsAlertPass =>
         /\ state'.alerts = ExpectedAlerts(state', now)
         /\ \A i, j \in DOMAIN state'.alerts :
               state'.alerts[i].message = state'.alerts[j].message => i = j]_vars

\* C13 witness: a refresh after a long silence replaced the list: three rules
\* fire at once, the staleness rule among them
C13_Witness ==
    /\ Len(state.alerts) = 3
    /\ state.alerts[1].message = "E-STOP active but vehicle is moving!"
    /\ state.alerts[3].message = "No vehicle data for" /\ state.alerts[3].age = LongSpan
    /\ lastSnap # <<>> /\ lastSnap[1].alerts = state.alerts

TeleopKey == "nev/gcs/teleop"
EstopKey == "nev/gcs/estop"
ModeKey == "nev/gcs/cmd_mode"

\* the step made a put (every send_* draws a sequence number first)
PutMade == seq' # seq

\* C1: a teleop message goes out only at the end of a teleop-timer firing whose
\* gate, read from the Store at that firing, found mode = 2 and e-stop clear; a
\* firing that finds mode # 2 or e-stop set leads to no teleop transmission.
C1_TeleopGate ==
    [][/\ (PutMade /\ lastPut'[1].key = TeleopKey) => lpc = "teleop_az"
       /\ (lpc' = "teleop_az" /\ lpc # "teleop_az") => lpc = "teleop_lx"
       /\ (lpc' = "teleop_lx" /\ lpc # "teleop_lx") =>
             /\ lpc = "idle"
             /\ state.control.mode = 2 /\ ~state.control.estop
             /\ now - disp.last_tc >= tc_interval
       /\ (DispatchTick /\ ~(state.control.mode = 2 /\ ~state.control.estop)) =>
             /\ lpc' = "push"
             /\ ~(PutMade /\ lastPut'[1].key = TeleopKey)
             /\ now - disp.last_tc >= tc_interval => disp'.last_tc = now]_vars

\* C1 witness: the firing at StartTime met the closed gate (a heartbeat, number
\* 0, went out alone), mode 2 was then commanded (number 1), and the next firing
\* sent the teleop message (number 2)
C1_Witness ==
    /\ lastPut # <<>> /\ lastPut[1].key = TeleopKey /\ lastPut[1].data.seq = 2
    /\ state.control.mode = 2 /\ ~state.control.estop
    /\ disp.last_push = StartTime
    /\ disp.last_tc = StartTime + TimeStep
    /\ lpc = "push"

\* C2: every write to a Store field is made by the event loop; neither the
\* joystick thread nor the transport's thread writes one.
C2_OnlyLoopWrites == writers \subseteq {"loop"}

\* C4: set_cmd_mode(m) with m outside {-1,0,1,2} answers with an error and
\* changes neither control.mode nor the link; with m inside it sets control.mode
\* to m and makes exactly one put, the mode message carrying m.  control.mode is
\* always in {-1,0,1,2}.
C4_SetCmdMode ==
    [][/\ \A m \in ModeInputs :
            set_cmd_mode(m) =>
               IF m \in {-1, 0, 1, 2}
               THEN /\ state'.control.mode = m
                    /\ seq' = (seq + 1) % 65536
                    /\ lastPut' = <<[key |-> ModeKey, data |-> [mode |-> m, seq |-> seq],
                                     ok |-> lastPut'[1].ok]>>
                    /\ webResp' = <<[ok |-> TRUE, mode |-> m]>>
               ELSE /\ state' = state /\ seq' = seq /\ lastPut' = lastPut
                    /\ webResp'[1].ok = FALSE
       /\ state.control.mode \in {-1, 0, 1, 2}
       /\ state'.control.mode \in {-1, 0, 1, 2}]_vars

\* C4 witness: mode 2 was set and sent, and a later request for mode 3 refused
C4_Witness ==
    /\ state.control.mode = 2
    /\ lastPut # <<>> /\ lastPut[1].key = ModeKey /\ lastPut[1].data.mode = 2
    /\ webResp # <<>> /\ ~webResp[1].ok /\ webResp[1].mode = 3

\* C14: each outbound kind has its own counter: a message of a kind carries the
\* number that follows, mod 65536, the number of the previous message of that
\* kind, whatever was sent between them.
C14_PerKindCounters ==
    [][\A k \in OutboundKeys :
          (PutMade /\ lastPut'[1].key = k /\ sent[k] # <<>>) =>
              lastPut'[1].data.seq = (sent[k][1].seq + 1) % 65536]_vars

\* C15: a put that fails inside a send_* call shows nowhere but in the log: the
\* Store is as the handler alone leaves it, the handler goes on as after a put
\* that went out (the dispatcher to its next step, the web handlers to their ok
\* response), and the counter advances, so later firings send again.
C15_PutFailureContained ==
    [][(PutMade /\ ~lastPut'[1].ok) =>
         LET k == lastPut'[1].key IN
         /\ seq' = (seq + 1) % 65536
         /\ k = "nev/gcs/heartbeat" =>
               /\ state' = state
               /\ lpc' \in {"teleop_lx", "push"}
               /\ disp'.last_hb = now
         /\ k = "nev/gcs/teleop" =>
               /\ state' = state
               /\ lpc' = "push"
               /\ disp'.last_tc = lreg.now
         /\ k = "nev/gcs/estop" =>
               /\ state' = state
               /\ lpc' = "idle"
               /\ webResp' = <<[ok |-> TRUE, active |-> lastPut'[1].data.active]>>
         /\ k = "nev/gcs/cmd_mode" =>
               /\ state' = [state EXCEPT !.control.mode = lastPut'[1].data.mode]
               /\ lpc' = "idle"
               /\ webResp' = <<[ok |-> TRUE, mode |-> lastPut'[1].data.mode]>>]_vars

\* C15 witness: the heartbeat of the first firing failed; the loop went on, mode
\* 2 was commanded, and the firing one TimeStep later put a teleop message
C15_Witness ==
    /\ sent["nev/gcs/heartbeat"] = <<[seq |-> 0, ok |-> FALSE]>>
    /\ lastPut # <<>> /\ lastPut[1].key = "nev/gcs/teleop" /\ lastPut[1].data.seq = 2
    /\ disp.last_hb = StartTime
    /\ disp.last_tc = StartTime + TimeStep
    /\ lpc = "push"

\* the queue registered for consumer c
SinkItems(st, c) == st.subscribers[SinkOf(st, c)].items

\* C16: a broadcast serializes one snapshot and offers it to every registered
\* sink without blocking: a sink holding 20 items keeps its contents, every other
\* sink gets the snapshot at its tail, the list of sinks is as before, and the
\* broadcasting handler completes; no sink ever holds more than its capacity.
C16_BroadcastToSinks ==
    [][/\ GpuRamp =>
            /\ lastSnap' = <<to_json(state', now)>>
            /\ lpc' = "idle"
            /\ Len(state'.subscribers) = Len(state.subscribers)
            /\ \A i \in DOMAIN state.subscribers :
                  LET old == state.subscribers[i]
                      new == state'.subscribers[i]
                  IN  /\ new.id = old.id /\ new.maxsize = old.maxsize
                      /\ new.items = IF Len(old.items) >= 20 THEN old.items
                                     ELSE Append(old.items, lastSnap'[1])
       /\ \A i \in DOMAIN state'.subscribers :
             /\ state'.subscribers[i].maxsize = 20
             /\ Len(state'.subscribers[i].items) <= 20]_vars

\* C16 witness: the stalled consumer's sink is full and missed the latest
\* snapshot, which the other consumer's sink got
C16_Witness ==
    /\ Registered(state, 1) /\ Registered(state, 2)
    /\ Len(SinkItems(state, 2)) = 20
    /\ SinkItems(state, 2)[20] # lastSnap[1]
    /\ SinkItems(state, 1) # <<>>
    /\ SinkItems(state, 1)[Len(SinkItems(state, 1))] = lastSnap[1]

\* what C17 says of connect, texts and keepalive, common to both readings
StreamingFrame(c) ==
    /\ WsConnect(c) =>
          /\ Registered(state', c) /\ SinkItems(state', c) = <<>>
          /\ ws'[c].pc = "first" /\ ws'[c].data = <<to_json(state, now)>>
    /\ (WsSend(c) /\ ~ws[c].gone) =>
          /\ ws'[c].pc = "wait" /\ ws'[c].since = now
          /\ state' = state
    /\ WsGet(c) =>
          /\ ws'[c].data = <<Head(SinkItems(state, c))>>
          /\ SinkItems(state', c) = Tail(SinkItems(state, c))
    /\ WsTimeout(c) =>
          /\ now - ws[c].since >= 5000
          /\ SinkItems(state, c) = <<>>
          /\ ws'[c].data = <<to_json(state, now)>>
    /\ (ws'[c].data # ws[c].data /\ ws'[c].data # <<>>) =>
          WsConnect(c) \/ WsGet(c) \/ WsTimeout(c)
    /\ ws'[c].pc = "none" => ~Registered(state', c)

\* C17 as stated: the first text is the snapshot taken at connect; every snapshot
\* broadcast while the consumer is registered joins its queue, which is sent in
\* order; a keepalive snapshot follows 5 s without a broadcast; and once the
\* client has disconnected its sink is not registered, so no broadcast reaches it.
C17_EveryBroadcastSent ==
    [][\A c \in Consumers :
         /\ StreamingFrame(c)
         /\ (GpuRamp /\ Registered(state, c)) =>
               SinkItems(state', c) = Append(SinkItems(state, c), lastSnap'[1])
         /\ ws'[c].gone => ~Registered(state', c)]_vars

\* C17, amended: as stated, but a snapshot broadcast while the consumer's sink
\* holds 20 items is dropped for it, and the sink of a client that disconnected
\* stays registered until the handler's next send fails, which unregisters it.
C17_StreamingConsumer ==
    [][\A c \in Consumers :
         /\ StreamingFrame(c)
         /\ (GpuRamp /\ Registered(state, c)) =>
               SinkItems(state', c) = IF Len(SinkItems(state, c)) >= 20
                                      THEN SinkItems(state, c)
                                      ELSE Append(SinkItems(state, c), lastSnap'[1])
         /\ (WsSend(c) /\ ws[c].gone) =>
               /\ ~Registered(state', c)
               /\ ws'[c].pc = "none"]_vars

\* C17 witness: consumer 1, slow to take a text, has 20 snapshots queued and
\* the latest broadcast is not among them
C17_Witness ==
    /\ Registered(state, 1)
    /\ ws[1].pc = "send" /\ ~ws[1].gone
    /\ Len(SinkItems(state, 1)) = 20
    /\ \A i \in 1..20 : SinkItems(state, 1)[i] # lastSnap[1]

\* C18: on each connection of a device, a configured speed (or steer) axis index
\* outside the device's axis count is clamped to 0 and logged as an error exactly
\* once in that connection event; an index inside it is kept and not logged.
C18_ClampLoggedPerConnection ==
    [][(~joy.joystick /\ joy'.joystick) =>
         \A axis \in {"axis_speed", "axis_steer"} :
            LET configured == JoystickHandler(ClampCfg)[axis]
                logged == {i \in DOMAIN joy'.errors : joy'.errors[i] = axis}
            IN  IF 0 <= configured /\ configured < pad.numaxes
                THEN joy'[axis] = configured /\ logged = {}
                ELSE joy'[axis] = 0 /\ Cardinality(logged) = 1]_vars

\* C19: with the configured threshold d (0 <= d < 1) and every input x of
\* -1.000 .. 1.000 in steps of 0.001: |x| < d gives 0; x = 1 gives 1 and x = -1
\* gives -1; the output has the sign of the input; and from |x| >= d on, the
\* output magnitude does not decrease as |x| grows.
C19_Deadzone ==
    LET d == joy.deadzone
        f(x) == apply_deadzone(x, d)
    IN  /\ 0 <= d /\ d < 1000
        /\ \A x \in -1000..1000 :
              /\ (x < d /\ -x < d) => f(x) = 0
              /\ x > 0 => f(x) >= 0
              /\ x < 0 => f(x) <= 0
        /\ f(1000) = 1000000
        /\ f(-1000) = -1000000
        /\ \A x \in 0..999 :
              x >= d => /\ f(x) <= f(x + 1)
                        /\ f(-(x + 1)) <= f(-x)

\* C19 witness: with d = 0.5 the thread has read the speed axis at +1 and the
\* steer axis at -1 and written the full-scale outputs (speed inverted)
C19_Witness ==
    /\ joy.deadzone = 500
    /\ jpc = "raw_speed"
    /\ state.control.linear_x = -1000000
    /\ state.control.angular_z = 471000

\* C20: release is idempotent: a stop() after the first performs no undeclare or
\* close on a handle that is already released, and raises nothing.
C20_StopIdempotent ==
    /\ link.reused = {}
    /\ ~link.raised

\* the step is one of the joystick thread
JoyStep == jpc' # jpc \/ joy' # joy

\* C5: with a device held and the e-stop button enabled, a poll that finds the
\* button pressed after finding it released toggles once: control.estop becomes
\* the negation of the value _toggle_estop read, and one e-stop message carrying
\* that value goes out; a poll that finds the button still pressed, or released,
\* changes neither control.estop nor the link.
C5_EstopRisingEdge ==
    [][/\ (jpc = "button" /\ jpc' \notin {"button", "dead"} /\ joy.use_estop_btn) =>
            IF joy'.btn /\ ~joy.prev_btn_estop
            THEN /\ jpc' = "toggle_write"
                 /\ joy'.new_val = ~state.control.estop
                 /\ state' = state /\ seq' = seq /\ lastPut' = lastPut
            ELSE /\ jpc' = "broadcast"
                 /\ joy'.prev_btn_estop = joy'.btn
                 /\ state' = state /\ seq' = seq /\ lastPut' = lastPut
       /\ (jpc = "toggle_write" /\ jpc' # jpc) =>
            /\ jpc' = "toggle_send"
            /\ state'.control.estop = joy.new_val
            /\ seq' = seq /\ lastPut' = lastPut
       /\ (jpc = "toggle_send" /\ jpc' # jpc) =>
            /\ jpc' = "broadcast"
            /\ seq' = (seq + 1) % 65536
            /\ lastPut'[1].key = EstopKey /\ lastPut'[1].data.active = joy.new_val
            /\ joy'.prev_btn_estop
            /\ state' = state
       /\ (JoyStep /\ state'.control.estop # state.control.estop) => jpc = "toggle_write"
       /\ (JoyStep /\ PutMade) => jpc = "toggle_send"
       /\ jpc' = "toggle_write" /\ jpc # "toggle_write" => jpc = "button"
       /\ jpc' = "toggle_send" /\ jpc # "toggle_send" => jpc = "toggle_write"]_vars

\* C5 witness: the button went down, the toggle ran to its end with no web
\* request about, and the next poll found the button still down
C5_Witness ==
    /\ webResp = <<>> /\ lpc = "idle"
    /\ state.control.estop
    /\ lastPut # <<>> /\ lastPut[1].key = EstopKey /\ lastPut[1].data.active
    /\ seq = 1
    /\ jpc = "broadcast" /\ joy.btn /\ joy.prev_btn_estop
    /\ joy.last_broadcast = now

\* C6: a failed poll (the event pump, or a read of an axis or the button) and a
\* device count of zero both leave the driver Disconnected, with linear_x,
\* angular_z, raw_speed and raw_steer at 0 and joystick_connected cleared.
C6_PollFailureDisconnects ==
    (jpc = "dead" \/ (jpc = "top" /\ ~joy.joystick)) =>
        /\ ~joy.joystick
        /\ ~state.control.joystick_connected
        /\ state.control.linear_x = 0 /\ state.control.angular_z = 0
        /\ state.control.raw_speed = 0 /\ state.control.raw_steer = 0

\* C3: a subscriber callback of the link mutates no Store field itself, it only
\* posts; every Store mutation the link causes happens when the event loop runs a
\* posted callback, and posted callbacks run in the order they were posted.
C3_LinkMarshalsInOrder ==
    [][/\ nPosted' # nPosted =>
            /\ state' = state /\ lastSnap' = lastSnap
            /\ loopQ' = Append(loopQ, [n |-> nPosted', cb |-> loopQ'[Len(loopQ')].cb])
       /\ state' # state =>
            /\ lpc = "idle" /\ loopQ # <<>>
            /\ lastRun' = Head(loopQ).n
            /\ state' = RunCallback(Head(loopQ).cb, state, now).st
       /\ lastRun' # lastRun => lastRun' = lastRun + 1
       /\ "zenoh" \notin writers']_vars

\* C3 witness: two callbacks posted by the link have run on the loop, a twist
\* update and a gpu update, and the last broadcast shows both
C3_Witness ==
    /\ lastRun = 2
    /\ state.twist.final_lx = 200000
    /\ Len(state.gpu_list) = 2
    /\ lastSnap # <<>> /\ lastSnap[1].gpu_list = state.gpu_list /\ lastSnap[1].twist = state.twist

\* every entry of a list carries the index and the keys its handler subscripts
EntriesComplete(entries, keys) ==
    \A i \in DOMAIN entries : (keys \cup {"idx"}) \subseteq DOMAIN entries[i]

\* the posted callback holds a message with every field its handler requires
WellFormed(cb) ==
    CASE cb.fn = "gpu" -> EntriesComplete(cb.data, GpuKeys)
      [] cb.fn = "disk" -> EntriesComplete(dict_get(cb.data, "partitions", <<>>), DiskKeys)
      [] cb.fn = "net" -> /\ NetKeys \subseteq DOMAIN cb.data
                          /\ EntriesComplete(dict_get(cb.data, "interfaces", <<>>), IfaceKeys)
      [] OTHER -> TRUE

\* C21: a malformed inbound message is dropped as a whole: the step that handles
\* it, on the link's thread or on the loop, changes no sub-struct field, no
\* indexed slot, not last_vehicle_recv, not the alert list, and broadcasts nothing.
C21_MalformedDroppedWhole ==
    [][/\ (lastRun' # lastRun /\ ~WellFormed(Head(loopQ).cb)) =>
            state' = state /\ lastSnap' = lastSnap
       /\ (nPosted' # nPosted \/ lastRun' = lastRun) =>
            state' = state /\ lastSnap' = lastSnap]_vars

\* the latest broadcast carries the staleness alert, of level error
StaleShown ==
    /\ lastSnap # <<>>
    /\ \E i \in DOMAIN lastSnap[1].alerts :
          /\ lastSnap[1].alerts[i].message = "No vehicle data for"
          /\ lastSnap[1].alerts[i].level = "error"

\* C22: once a vehicle update has been received and everything but the periodic
\* refresh stays silent, the refresh alone eventually broadcasts a snapshot with
\* the staleness error alert; a dispatcher pass begun more than 3.0 s plus one
\* push interval after last_vehicle_recv ends with that snapshot as the latest.
C22_RefreshReportsStale ==
    /\ (state.last_vehicle_recv > 0) ~> StaleShown
    /\ [][(lpc = "push" /\ lpc' = "idle" /\ state.last_vehicle_recv > 0
           /\ lreg.now - state.last_vehicle_recv > StaleThreshold + push_interval)
          => StaleShown']_vars

\* C22 witness: the update came at StartTime, the clock has passed 3.0 s more,
\* and the refresh has broadcast the staleness alert with no other activity
C22_Witness ==
    /\ state.last_vehicle_recv = StartTime
    /\ now > StartTime + StaleThreshold
    /\ StaleShown
    /\ lastPut = <<>>
    /\ lpc = "idle"

\* C23: once stop() has cleared the running flag, a step of the joystick thread
\* posts no callback to the event loop, writes no Store field and sends no e-stop
\* message; callbacks posted before still run on the loop.
C23_QuietAfterStop ==
    [][(~joy.running /\ jpc' # jpc) =>
          /\ nPosted' = nPosted /\ loopQ' = loopQ
          /\ state' = state
          /\ sent' = sent /\ seq' = seq]_vars

\* the driver is in its Connected state: it holds a device, has flagged it, and
\* its thread is polling
Connected == joy.joystick /\ state.control.joystick_connected /\ jpc # "dead"

\* C24: while the driver runs, whenever it is not Connected and a device is
\* present, it gets back to Connected unless the device goes away again: no
\* state of a running driver shuts Connected out for good.
C24_RetryReachesConnected ==
    (joy.running /\ pad.count = 1 /\ ~Connected) ~> (Connected \/ pad.count = 0)

\* the step applies vehicle traffic: update_packet on a sub-struct, or the loop
\* running the callback the link posted for a disk message
InboundStep ==
    \/ ApplyUpdate("twist", [final_lx |-> 200000])
    \/ (LoopRun /\ Head(loopQ).cb.fn = "disk")

\* C25: last_vehicle_recv never decreases and only vehicle traffic changes it:
\* update_remote_enabled, the validation pass and broadcast of the refresh, the
\* web mode command and the joystick thread's writes leave it as it was, and a
\* step that changes it is an inbound update that sets it to the clock.
C25_LastReceivedMonotone ==
    [][/\ state'.last_vehicle_recv >= state.last_vehicle_recv
       /\ state'.last_vehicle_recv # state.last_vehicle_recv =>
            (InboundStep /\ state'.last_vehicle_recv = now)
       /\ (\/ SetRemoteEnabled(TRUE)
           \/ set_cmd_mode(2)
           \/ DispatchTick \/ DispatchPush
           \/ JoyTop)
          => state'.last_vehicle_recv = state.last_vehicle_recv]_vars

\* C25 witness: the vehicle was last heard at StartTime, by a disk message; later
\* the refresh ran, and the relay flag, mode 2 and the stick's speed are in the
\* Store
C25_Witness ==
    /\ state.last_vehicle_recv = StartTime
    /\ Len(state.disk_partitions) = 1
    /\ now > StartTime
    /\ disp.last_push = now
    /\ state.remote_enabled
    /\ state.control.mode = 2
    /\ state.control.linear_x # 0

\* the joystick's toggle has set control.estop and its e-stop(true) has gone out
\* as the link's latest message; the flag has not been cleared since
EstopInForce ==
    /\ state.control.estop
    /\ jpc \notin {"toggle_write", "toggle_send"}
    /\ lastPut # <<>> /\ lastPut[1].key = EstopKey
    /\ lastPut[1].data.active /\ lastPut[1].ok

\* C26: under every interleaving of the joystick thread and the dispatcher, once
\* the toggle has set control.estop and sent e-stop(true), no teleop message goes
\* out while control.estop is still true.
C26_NoTeleopAfterEstop ==
    [][EstopInForce => ~(PutMade /\ lastPut'[1].key = TeleopKey /\ lastPut'[1].ok)]_vars

\* C27: under every interleaving of the web set_estop and the joystick's toggle,
\* whenever neither is in progress and the link's latest message is an e-stop
\* that went out, control.estop equals the value that message carried.
C27_EstopMatchesLastSent ==
    (/\ lpc = "idle"
     /\ jpc \notin {"toggle_write", "toggle_send"}
     /\ lastPut # <<>> /\ lastPut[1].key = EstopKey /\ lastPut[1].ok)
    => state.control.estop = lastPut[1].data.active

\* a control sub-struct flagged disconnected has its four outputs at zero
Neutral(control) ==
    ~control.joystick_connected =>
        /\ control.linear_x = 0 /\ control.angular_z = 0
        /\ control.raw_speed = 0 /\ control.raw_steer = 0

\* C28: whatever the event loop observes of control, flagged disconnected, has
\* linear_x, angular_z, raw_speed and raw_steer at 0: every snapshot it
\* serializes, and the Store at the dispatcher's read of the teleop arguments.
C28_DisconnectedIsNeutral ==
    [][/\ lastSnap' # lastSnap => Neutral(lastSnap'[1].control)
       /\ (lpc = "teleop_lx" /\ lpc' = "teleop_az") => Neutral(state.control)]_vars

\* C29: once _validate_config has run for the device held, every index the poll
\* reads (the speed and steer axes, each enabled display axis, the enabled
\* e-stop button) is within what the device reports, and no read ends the thread.
C29_PolledIndexesInRange ==
    /\ joy.joystick =>
          /\ AxisReadable(joy, joy.axis_speed)
          /\ AxisReadable(joy, joy.axis_steer)
          /\ joy.has_raw_speed => AxisReadable(joy, joy.axis_raw_speed)
          /\ joy.has_raw_steer => AxisReadable(joy, joy.axis_raw_steer)
          /\ joy.use_estop_btn => ButtonReadable(joy, joy.btn_estop)
    /\ jpc # "dead"

====
